---- MODULE Spec2Model ----
(***************************************************************************)
(* Model of the Zephyr test dashboard (src/zephyr_react_dashboard.js):     *)
(* the MCP tool client (useMCPClient.callTool), the ZephyrDashboard        *)
(* component state, its effects and loaders, and the rate arithmetic of    *)
(* ProgressBar / CycleCard / the metric cards.                             *)
(*                                                                         *)
(* Numbers with one decimal (percentages) are kept in tenths: 84.4 is 844. *)
(* A JSON object is a record; an absent field is a field outside DOMAIN.   *)
(***************************************************************************)
EXTENDS Integers, Sequences, FiniteSets, TLC

\* ------------------------------------------------------------------ bounds
\* Largest number of load invocations (loadProjects, loadVersions,
\* loadDashboard) started in one behaviour.
MaxLoads == 4

\* Largest total of a metrics record enumerated besides the documented samples.
MaxTotal == 4

\* ------------------------------------------------------- upstream catalogue
\* Projects the upstream service knows (get_projects sample output).
UpstreamProjects ==
  << [id |-> "p1", key |-> "MYAPP", name |-> "My Application"],
     [id |-> "p2", key |-> "OTHER", name |-> "Other Application"] >>

\* Releases of a project (get_release_status sample output): two of the
\* first project, one of the second.
UpstreamReleases(p) ==
  IF p = "p1" THEN << [version |-> [id |-> "v1", name |-> "v2.1.0"]],
                      [version |-> [id |-> "v3", name |-> "v2.2.0"]] >>
  ELSE IF p = "p2" THEN << [version |-> [id |-> "v2", name |-> "v3.0.0"]] >>
  ELSE << >>

\* The ids of the versions in the upstream release list of project p.
ReleaseIds(p) == {UpstreamReleases(p)[j].version.id : j \in 1..Len(UpstreamReleases(p))}

\* The version ids the upstream knows.
UpstreamVersionIds == UNION {ReleaseIds(UpstreamProjects[j].id) : j \in 1..Len(UpstreamProjects)}

\* ----------------------------------------------------------------- tools
GetProjects == "get_projects"
GetReleaseStatus == "get_release_status"
GenerateTestReport == "generate_test_report"
GetExecutionProgress == "get_execution_progress"
GetRegressionTestCount == "get_regression_test_count"
GetNegativeTestCount == "get_negative_test_count"
GetTestExecutionSummary == "get_test_execution_summary"

\* The calls loadDashboard passes to Promise.all, in array order.
DashboardCalls_summary ==
  << GetTestExecutionSummary, GetExecutionProgress, GetRegressionTestCount,
     GetNegativeTestCount >>
DashboardCalls ==
  << GenerateTestReport, GetExecutionProgress, GetRegressionTestCount,
     GetNegativeTestCount >>

DashboardTools == {DashboardCalls[j] : j \in 1..Len(DashboardCalls)}

AllTools ==
  {GetProjects, GetReleaseStatus, GenerateTestReport, GetTestExecutionSummary,
   GetExecutionProgress, GetRegressionTestCount, GetNegativeTestCount}

\* The tool calls each loader issues.
ToolsOf(kind) ==
  IF kind = "loadProjects" THEN {GetProjects}
  ELSE IF kind = "loadVersions" THEN {GetReleaseStatus}
  ELSE DashboardTools

\* --------------------------------------------------------------- responses
\* What the transport can deliver for one request:
\*   transport   fetch() or response.json() rejects
\*   rpc_error   a body with an error field and no result
\*   no_content  a body whose result has no content
\*   bad_text    content[0].text is not JSON
\*   err_field   the text parses to an object with an error field
\*   ok          the text parses to the tool's result
\*   ok_empty    (lists) the result's list is empty
\*   ok_absent   (lists) the result has no list field
ThrowKinds == {"transport", "rpc_error", "no_content", "bad_text"}

RespKindsOf(tool) ==
  IF tool = GetProjects THEN ThrowKinds \cup {"err_field", "ok", "ok_absent"}
  ELSE IF tool = GetReleaseStatus THEN ThrowKinds \cup {"err_field", "ok", "ok_empty", "ok_absent"}
  ELSE ThrowKinds \cup {"err_field", "ok"}

\* Overall metrics the upstream reports for a (project, version) pair.
UpstreamOverall(p, v) ==
  IF p = "p1" /\ v = "v1"
  THEN [total_tests |-> 450, passed |-> 320, failed |-> 45, blocked |-> 15,
        unexecuted |-> 70, execution_rate |-> 844, pass_rate |-> 711]
  ELSE [total_tests |-> 0, passed |-> 0, failed |-> 0, blocked |-> 0,
        unexecuted |-> 0, execution_rate |-> 0, pass_rate |-> 0]

UpstreamCycles(p, v) ==
  IF p = "p1" /\ v = "v1"
  THEN << [total_tests |-> 50, passed |-> 45, failed |-> 3, blocked |-> 1,
           unexecuted |-> 1, execution_rate |-> 980, pass_rate |-> 900] >>
  ELSE << >>

\* The JSON document the upstream puts in content[0].text for request `call`
\* (= <<load index, tool>>) with arguments p, v.
UpstreamDoc(k, call, p, v) ==
  LET tool == call[2] IN
  IF k = "err_field" THEN [call |-> call, error |-> "Upstream error"]
  ELSE IF tool = GetProjects
    THEN IF k = "ok" THEN [projects |-> UpstreamProjects] ELSE [total_count |-> 0]
  ELSE IF tool = GetReleaseStatus
    THEN IF k = "ok" THEN [project_id |-> p, releases |-> UpstreamReleases(p)]
         ELSE IF k = "ok_empty" THEN [project_id |-> p, releases |-> << >>]
         ELSE [project_id |-> p]
  ELSE IF tool = GenerateTestReport
    THEN [call |-> call, project_id |-> p, version_id |-> v,
          overall_metrics |-> UpstreamOverall(p, v)]
  ELSE IF tool = GetExecutionProgress
    THEN [call |-> call, project_id |-> p, version_id |-> v,
          progress |-> UpstreamCycles(p, v)]
  ELSE IF tool = GetRegressionTestCount
    THEN [call |-> call, project_id |-> p, version_id |-> v,
          total_regression_tests |-> IF p = "p1" /\ v = "v1" THEN 125 ELSE 0]
  ELSE [call |-> call, project_id |-> p, version_id |-> v,
        negative_test_count |-> IF p = "p1" /\ v = "v1" THEN 35 ELSE 0]

\* The outcome of fetch + response.json() for a response of kind k.
Response(k, doc) ==
  IF k = "transport" THEN [fetch |-> "rejected"]
  ELSE IF k = "rpc_error"
    THEN [fetch |-> "ok", body |-> [error |-> [message |-> "Unknown tool"]]]
  ELSE IF k = "no_content"
    THEN [fetch |-> "ok", body |-> [result |-> [isError |-> TRUE]]]
  ELSE IF k = "bad_text"
    THEN [fetch |-> "ok",
          body |-> [result |-> [content |-> << [text |-> [wellFormed |-> FALSE]] >>]]]
  ELSE [fetch |-> "ok",
        body |-> [result |-> [content |-> << [text |-> [wellFormed |-> TRUE, doc |-> doc]] >>]]]

\* ------------------------------------------------------------- tool client
Throw(m) == [threw |-> TRUE, message |-> m]
Return(x) == [threw |-> FALSE, value |-> x]

\* JSON.parse that hands back text it cannot parse.
JSONParse_lenient(text) ==
  IF text.wellFormed THEN Return(text.doc) ELSE Return(text)

\* JSON.parse: a SyntaxError on text that is not JSON, else the document.
JSONParse(text) ==
  IF text.wellFormed THEN Return(text.doc) ELSE Throw("Unexpected token in JSON")

\* callTool with a catch block that logs and does not rethrow: it returns
\* undefined where callTool throws.
callTool_swallow(response) ==
  IF /\ response.fetch # "rejected"
     /\ "result" \in DOMAIN response.body
     /\ "content" \in DOMAIN response.body.result
     /\ Len(response.body.result.content) > 0
     /\ "text" \in DOMAIN response.body.result.content[1]
     /\ response.body.result.content[1].text.wellFormed
  THEN Return(response.body.result.content[1].text.doc)
  ELSE Return([undefined |-> TRUE])

\* useMCPClient.callTool, from the response on: the catch block logs and
\* rethrows, so every throw reaches the caller. `content[0].text` of an empty
\* content array is a TypeError, and JSON.parse of an element without text
\* (undefined) a SyntaxError.
callTool(response) ==
  IF response.fetch = "rejected" THEN Throw("Failed to fetch")
  ELSE IF /\ "result" \in DOMAIN response.body
          /\ "content" \in DOMAIN response.body.result
    THEN IF Len(response.body.result.content) = 0
           THEN Throw("Cannot read properties of undefined (reading 'text')")
         ELSE IF "text" \notin DOMAIN response.body.result.content[1]
           THEN Throw("\"undefined\" is not valid JSON")
         ELSE JSONParse(response.body.result.content[1].text)
  ELSE Throw("Invalid response from MCP server")

\* `if (result.error)`: the field is present and a non-empty string.
HasError(result) == "error" \in DOMAIN result /\ result.error # ""

\* ------------------------------------------------------------------- state
VARIABLES
  mounted,          \* the mount effect has run
  projects,         \* useState([])
  selectedProject,  \* useState('')
  selectedVersion,  \* useState('')
  versions,         \* useState([])
  dashboardData,    \* useState(null)
  loading,          \* useState(false)
  error,            \* useState('')
  loads,            \* the load invocations started so far, in order; each holds
                    \* its arguments and, per tool call, "pending" or the kind of
                    \* the response that arrived
  requests,         \* per tool, the number of fetch requests issued
  events,           \* per loader, the number of events that trigger it
  failedLoads,      \* the loadDashboard invocations one of whose requests met a
                    \* transport failure, a response without content or
                    \* unparsable text before the invocation finished
  view,             \* what the last render of the dashboard body displayed
  client            \* the tool client called on its own: the response handed
                    \* to callTool and what callTool gave its caller

vars == << mounted, projects, selectedProject, selectedVersion, versions,
           dashboardData, loading, error, loads, requests, events,
           failedLoads, view, client >>

Null == [null |-> TRUE]
NoView == [rendered |-> FALSE]
NoCall == [called |-> FALSE]

\* The response kinds of the three error classes: CommunicationError
\* (transport), ProtocolError (no content, unparsable text) and UpstreamError
\* (an error field in the parsed result).
ErrorKinds == ThrowKinds \cup {"err_field"}

Loaders == {"loadProjects", "loadVersions", "loadDashboard"}

\* The loader that issues a tool.
LoaderOf(tool) ==
  IF tool = GetProjects THEN "loadProjects"
  ELSE IF tool = GetReleaseStatus THEN "loadVersions"
  ELSE "loadDashboard"

\* A loader invocation from its call of callTool to its await: every tool of
\* the loader is requested once, with the arguments read from the closure.
NewLoad(kind, p, v) ==
  [kind |-> kind, project |-> p, version |-> v,
   resp |-> [t \in ToolsOf(kind) |-> "pending"],
   settled |-> FALSE, hadError |-> FALSE, surfaced |-> FALSE, returned |-> << >>]

\* The versions effect with a call of loadProjects before loadVersions.
VersionsEffect_reloadProjects(oldP, newP) ==
  IF oldP # newP /\ newP # ""
  THEN << NewLoad("loadProjects", "", ""), NewLoad("loadVersions", newP, "") >>
  ELSE << >>

\* useEffect(() => { if (selectedProject) loadVersions(selectedProject) },
\*           [selectedProject])
VersionsEffect(oldP, newP) ==
  IF oldP # newP /\ newP # "" THEN << NewLoad("loadVersions", newP, "") >> ELSE << >>

\* The dashboard effect with the dependency array [selectedVersion].
DashboardEffect_versionOnly(oldP, oldV, newP, newV) ==
  IF oldV # newV /\ newP # "" /\ newV # ""
  THEN << NewLoad("loadDashboard", newP, newV) >> ELSE << >>

\* useEffect(() => { if (selectedProject && selectedVersion) loadDashboard() },
\*           [selectedProject, selectedVersion])
DashboardEffect(oldP, oldV, newP, newV) ==
  IF (oldP # newP \/ oldV # newV) /\ newP # "" /\ newV # ""
  THEN << NewLoad("loadDashboard", newP, newV) >> ELSE << >>

\* refreshDashboard
refreshDashboard ==
  IF selectedProject # "" /\ selectedVersion # ""
  THEN << NewLoad("loadDashboard", selectedProject, selectedVersion) >> ELSE << >>

StartsDashboard(new) == \E j \in 1..Len(new) : new[j].kind = "loadDashboard"

\* The synchronous part of the loaders in `new`: the requests go out, and
\* loadDashboard sets loading and clears error before its await.
Start(new) ==
  /\ Len(loads) + Len(new) <= MaxLoads
  /\ loads' = loads \o new
  /\ requests' = [t \in AllTools |->
        requests[t] + Cardinality({j \in 1..Len(new) : t \in DOMAIN new[j].resp})]
  /\ loading' = IF StartsDashboard(new) THEN TRUE ELSE loading
  /\ error' = IF StartsDashboard(new) THEN "" ELSE error

Bump(ev, loader, cond) == IF cond THEN [ev EXCEPT ![loader] = @ + 1] ELSE ev

Init ==
  /\ mounted = FALSE
  /\ projects = << >>
  /\ selectedProject = ""
  /\ selectedVersion = ""
  /\ versions = << >>
  /\ dashboardData = Null
  /\ loading = FALSE
  /\ error = ""
  /\ loads = << >>
  /\ requests = [t \in AllTools |-> 0]
  /\ events = [l \in Loaders |-> 0]
  /\ failedLoads = {}
  /\ view = NoView
  /\ client = NoCall

\* --------------------------------------------------------------- UI events
\* First render: the mount effect calls loadProjects; the two selection
\* effects run too and find nothing selected.
Mount ==
  /\ ~mounted
  /\ mounted' = TRUE
  /\ Start(<< NewLoad("loadProjects", "", "") >>
           \o VersionsEffect("", selectedProject)
           \o DashboardEffect("", "", selectedProject, selectedVersion))
  /\ events' = Bump(events, "loadProjects", TRUE)
  /\ UNCHANGED << projects, selectedProject, selectedVersion, versions,
                  dashboardData, failedLoads, view, client >>

\* The option values of a select: the placeholder and the ids of the list.
Options(list) == {""} \cup {list[j].id : j \in 1..Len(list)}

\* The option a select displays for a controlled value.
Displayed(value, list) == IF value \in Options(list) THEN value ELSE ""

\* onChange of the project select, then the render and its effects.
SelectProject(p) ==
  /\ mounted
  /\ p \in Options(projects)
  /\ p # Displayed(selectedProject, projects)
  /\ selectedProject' = p
  /\ Start(VersionsEffect(selectedProject, p)
           \o DashboardEffect(selectedProject, selectedVersion, p, selectedVersion))
  /\ events' = Bump(Bump(events, "loadVersions", p # ""),
                    "loadDashboard", p # "" /\ selectedVersion # "")
  /\ UNCHANGED << mounted, projects, selectedVersion, versions, dashboardData, failedLoads, view, client >>

\* onChange of the version select (disabled while versions is empty).
SelectVersion(v) ==
  /\ mounted
  /\ Len(versions) > 0
  /\ v \in Options(versions)
  /\ v # Displayed(selectedVersion, versions)
  /\ v # selectedVersion
  /\ selectedVersion' = v
  /\ Start(DashboardEffect(selectedProject, selectedVersion, selectedProject, v))
  /\ events' = Bump(events, "loadDashboard", selectedProject # "" /\ v # "")
  /\ UNCHANGED << mounted, projects, selectedProject, versions, dashboardData, failedLoads, view, client >>

\* disabled={!selectedProject || !selectedVersion || loading}
RefreshEnabled == ~(selectedProject = "" \/ selectedVersion = "" \/ loading)

\* onClick of the Refresh button.
ClickRefresh ==
  /\ mounted
  /\ RefreshEnabled
  /\ Start(refreshDashboard)
  /\ events' = Bump(events, "loadDashboard", TRUE)
  /\ UNCHANGED << mounted, projects, selectedProject, selectedVersion, versions,
                  dashboardData, failedLoads, view, client >>

\* ------------------------------------------------------ response handlers
\* The loader of load i finishes on the response of kind k to its call t and
\* leaves the error state err. Nothing awaits the requests of a finished load:
\* when Promise.all has rejected, the responses still to come for its other
\* calls resolve promises without a continuation and change no state. A
\* finished load keeps, of its history, whether a response it had received
\* was of an error kind (hadError) and whether it left an error message
\* (surfaced); a finished loadVersions keeps its project argument and the
\* version list it was given (returned) as well.
FinishedLoad(kind, hadError, surfaced) ==
  [kind |-> kind, project |-> "", version |-> "",
   resp |-> [u \in ToolsOf(kind) |-> "done"], settled |-> TRUE,
   hadError |-> hadError, surfaced |-> surfaced, returned |-> << >>]

Settle(i, t, k, err) ==
  LET resp2 == [loads[i].resp EXCEPT ![t] = k]
  IN [loads EXCEPT ![i] =
        FinishedLoad(loads[i].kind,
                     \E u \in DOMAIN resp2 : resp2[u] \in ErrorKinds, err # "")]

\* What callTool gives the loader of load i for a response of kind k to its
\* call of tool t.
Outcome(i, t, k) ==
  callTool(Response(k, UpstreamDoc(k, << i, t >>, loads[i].project, loads[i].version)))

\* `result.projects || []`
ProjectList(result) == IF "projects" \in DOMAIN result THEN result.projects ELSE << >>

\* `result.releases?.map(r => r.version) || []`
VersionList(result) ==
  IF "releases" \in DOMAIN result
  THEN [j \in 1..Len(result.releases) |-> result.releases[j].version]
  ELSE << >>

\* loadProjects with a catch block that calls loadProjects again.
loadProjects_retry(i, k) ==
  LET out == Outcome(i, GetProjects, k)
      err == IF out.threw THEN "Failed to load projects: " \o out.message
             ELSE IF HasError(out.value) THEN out.value.error
             ELSE error
      again == IF out.threw /\ Len(loads) < MaxLoads
               THEN << NewLoad("loadProjects", "", "") >> ELSE << >>
  IN /\ error' = err
     /\ projects' = IF ~out.threw /\ ~HasError(out.value)
                    THEN ProjectList(out.value) ELSE projects
     /\ loads' = Settle(i, GetProjects, k, err) \o again
     /\ requests' = [requests EXCEPT ![GetProjects] = @ + Len(again)]
     /\ UNCHANGED << versions, dashboardData, loading >>

\* loadProjects after its await.
loadProjects(i, k) ==
  LET out == Outcome(i, GetProjects, k)
      err == IF out.threw THEN "Failed to load projects: " \o out.message
             ELSE IF HasError(out.value) THEN out.value.error
             ELSE error
  IN /\ error' = err
     /\ projects' = IF ~out.threw /\ ~HasError(out.value)
                    THEN ProjectList(out.value) ELSE projects
     /\ loads' = Settle(i, GetProjects, k, err)
     /\ UNCHANGED << versions, dashboardData, loading, requests >>

\* loadVersions where a result without releases is an error.
loadVersions_requireReleases(i, k) ==
  LET out == Outcome(i, GetReleaseStatus, k)
      err == IF out.threw THEN "Failed to load versions: " \o out.message
             ELSE IF HasError(out.value) THEN out.value.error
             ELSE IF VersionList(out.value) = << >> THEN "No versions found"
             ELSE error
  IN /\ error' = err
     /\ versions' = IF ~out.threw /\ ~HasError(out.value)
                    THEN VersionList(out.value) ELSE versions
     /\ loads' = Settle(i, GetReleaseStatus, k, err)
     /\ UNCHANGED << projects, dashboardData, loading >>

\* loadVersions after its await.
loadVersions(i, k) ==
  LET out == Outcome(i, GetReleaseStatus, k)
      err == IF out.threw THEN "Failed to load versions: " \o out.message
             ELSE IF HasError(out.value) THEN out.value.error
             ELSE error
  IN /\ error' = err
     /\ versions' = IF ~out.threw /\ ~HasError(out.value)
                    THEN VersionList(out.value) ELSE versions
     /\ loads' = [Settle(i, GetReleaseStatus, k, err) EXCEPT
                    ![i].project = loads[i].project,
                    ![i].returned = IF ~out.threw /\ ~HasError(out.value)
                                    THEN VersionList(out.value) ELSE << >>]
     /\ UNCHANGED << projects, dashboardData, loading >>

Pending == [pending |-> TRUE]
Rejected(o) == "threw" \in DOMAIN o /\ o.threw
Fulfilled(o) == "threw" \in DOMAIN o /\ ~o.threw

\* Promise.all over the calls' outcomes: rejected with the first rejection,
\* fulfilled once every call has returned, pending otherwise.
PromiseAll(outs) ==
  IF \E t \in DOMAIN outs : Rejected(outs[t]) THEN "rejected"
  ELSE IF \A t \in DOMAIN outs : Fulfilled(outs[t]) THEN "fulfilled"
  ELSE "pending"

\* loadDashboard after its await, run when the response of kind k to call t
\* arrives: the continuation runs in the same turn as the response that
\* settles Promise.all.
loadDashboard(i, t, k) ==
  LET ld == loads[i]
      resp2 == [ld.resp EXCEPT ![t] = k]
      outs == [u \in DOMAIN resp2 |->
                 IF resp2[u] = "pending" THEN Pending ELSE Outcome(i, u, resp2[u])]
      all == PromiseAll(outs)
  IN IF all = "rejected"
     THEN LET err == "Failed to load dashboard: " \o outs[t].message
          IN /\ error' = err
             /\ loading' = FALSE
             /\ loads' = Settle(i, t, k, err)
             /\ UNCHANGED << projects, versions, dashboardData >>
     ELSE IF all = "fulfilled"
     THEN /\ dashboardData' =
               [report |-> outs[DashboardCalls[1]].value,
                progress |-> outs[DashboardCalls[2]].value,
                regressionTests |-> outs[DashboardCalls[3]].value,
                negativeTests |-> outs[DashboardCalls[4]].value]
          /\ loading' = FALSE
          /\ loads' = Settle(i, t, k, error)
          /\ UNCHANGED << projects, versions, error >>
     ELSE /\ loads' = [loads EXCEPT ![i].resp[t] = k]
          /\ UNCHANGED << projects, versions, dashboardData, loading, error >>

\* ------------------------------------------------------- response arrivals
IsPending(i, t) ==
  /\ i \in 1..Len(loads)
  /\ t \in DOMAIN loads[i].resp
  /\ loads[i].resp[t] = "pending"

ProjectsResponse(i, k) ==
  /\ IsPending(i, GetProjects)
  /\ k \in RespKindsOf(GetProjects)
  /\ loadProjects(i, k)
  /\ UNCHANGED << mounted, selectedProject, selectedVersion, events, failedLoads, view, client >>

VersionsResponse(i, k) ==
  /\ IsPending(i, GetReleaseStatus)
  /\ k \in RespKindsOf(GetReleaseStatus)
  /\ loadVersions(i, k)
  /\ UNCHANGED << mounted, selectedProject, selectedVersion, requests, events,
                  failedLoads, view, client >>

DashboardResponse(i, t, k) ==
  /\ i \in 1..Len(loads)
  /\ loads[i].kind = "loadDashboard"
  /\ ~loads[i].settled
  /\ IsPending(i, t)
  /\ k \in RespKindsOf(t)
  /\ loadDashboard(i, t, k)
  /\ failedLoads' = IF k \in ThrowKinds THEN failedLoads \cup {i} ELSE failedLoads
  /\ UNCHANGED << mounted, selectedProject, selectedVersion, requests, events, view, client >>

Next ==
  \/ Mount
  \/ \E p \in Options(UpstreamProjects) : SelectProject(p)
  \/ \E v \in ({""} \cup UpstreamVersionIds) : SelectVersion(v)
  \/ ClickRefresh
  \/ \E i \in 1..Len(loads) : \E k \in RespKindsOf(GetProjects) : ProjectsResponse(i, k)
  \/ \E i \in 1..Len(loads) : \E k \in RespKindsOf(GetReleaseStatus) : VersionsResponse(i, k)
  \/ \E i \in 1..Len(loads) : \E t \in DOMAIN loads[i].resp : \E k \in RespKindsOf(t) :
        DashboardResponse(i, t, k)

Spec == Init /\ [][Next]_vars

\* ------------------------------------------------------------- rendering
\* A JavaScript number is kept as a fraction; 0/0 is NaN.
Num(n) == [num |-> n, den |-> 1]
Tenths(n) == [num |-> n, den |-> 10]
IsNaN(q) == q.den = 0

\* What Number.prototype.toFixed(1) prints, in tenths (round half up), or the
\* text NaN.
NaNText == [nan |-> TRUE, tenths |-> 0]
toFixed1(q) ==
  IF IsNaN(q) THEN NaNText
  ELSE [nan |-> FALSE, tenths |-> (20 * q.num + q.den) \div (2 * q.den)]

\* ProgressBar: `const percentage = total > 0 ? (value / total) * 100 : 0`.
percentage_unguarded(value, total) == [num |-> value * 100, den |-> total]
percentage(value, total) ==
  IF total > 0 THEN [num |-> value * 100, den |-> total] ELSE Num(0)

\* ProgressBar: the label text `(percentage.toFixed(1)%)` and the bar width.
ProgressBar(value, total) ==
  [text |-> toFixed1(percentage(value, total)), width |-> percentage(value, total)]

\* `record.field || 0` for a rate field holding tenths.
RateOrZero(record, field) ==
  IF field \in DOMAIN record THEN Tenths(record[field]) ELSE Num(0)

\* `record.field || 0` for a count field.
CountOrZero(record, field) == IF field \in DOMAIN record THEN record[field] ELSE 0

\* CycleCard.
CycleCard_unexecuted(cycle) ==
  LET total == cycle.total_tests
  IN [total |-> total,
      executionRate |-> RateOrZero(cycle, "execution_rate"),
      passRate |-> RateOrZero(cycle, "pass_rate"),
      execution |-> ProgressBar(cycle.unexecuted, total),
      pass |-> ProgressBar(cycle.passed, total)]
CycleCard(cycle) ==
  LET total == cycle.total_tests
  IN [total |-> total,
      executionRate |-> RateOrZero(cycle, "execution_rate"),
      passRate |-> RateOrZero(cycle, "pass_rate"),
      execution |-> ProgressBar(total - cycle.unexecuted, total),
      pass |-> ProgressBar(cycle.passed, total)]

\* `dashboardData.report.overall_metrics?.x`
OverallMetrics(d) ==
  IF "overall_metrics" \in DOMAIN d.report THEN d.report.overall_metrics
  ELSE [absent |-> TRUE]

\* The Key Metrics and Test Type Metrics cards.
MetricCards_passRate(d) ==
  [totalTests |-> CountOrZero(OverallMetrics(d), "total_tests"),
   executionRate |-> toFixed1(RateOrZero(OverallMetrics(d), "pass_rate")),
   passRate |-> toFixed1(RateOrZero(OverallMetrics(d), "pass_rate")),
   regressionTests |-> CountOrZero(d.regressionTests, "total_regression_tests"),
   negativeTests |-> CountOrZero(d.negativeTests, "negative_test_count")]
MetricCards(d) ==
  [totalTests |-> CountOrZero(OverallMetrics(d), "total_tests"),
   executionRate |-> toFixed1(RateOrZero(OverallMetrics(d), "execution_rate")),
   passRate |-> toFixed1(RateOrZero(OverallMetrics(d), "pass_rate")),
   regressionTests |-> CountOrZero(d.regressionTests, "total_regression_tests"),
   negativeTests |-> CountOrZero(d.negativeTests, "negative_test_count")]

\* `dashboardData.progress?.progress?.map(cycle => <CycleCard .../>)`
CycleCards(d) ==
  IF "progress" \in DOMAIN d.progress
  THEN [j \in 1..Len(d.progress.progress) |-> CycleCard(d.progress.progress[j])]
  ELSE << >>

\* The render of the main content when loading is false and dashboardData is
\* set.
RenderDashboard ==
  /\ ~loading
  /\ dashboardData # Null
  /\ view' = [rendered |-> TRUE, data |-> dashboardData,
              cards |-> MetricCards(dashboardData),
              cycles |-> CycleCards(dashboardData)]
  /\ UNCHANGED << mounted, projects, selectedProject, selectedVersion, versions,
                  dashboardData, loading, error, loads, requests, events,
                  failedLoads, client >>

\* ------------------------------------------- upstream metrics (from the spec)
\* round(n / total * 100, 1) in tenths, 0 when total = 0.
UpstreamRate(n, total) ==
  IF total = 0 THEN 0 ELSE (2000 * n + total) \div (2 * total)

\* A metrics record the upstream service computes from its counts.
UpstreamMetrics(total, passed, failed, blocked, unexecuted) ==
  [total_tests |-> total, passed |-> passed, failed |-> failed, blocked |-> blocked,
   unexecuted |-> unexecuted,
   execution_rate |-> UpstreamRate(passed + failed + blocked, total),
   pass_rate |-> UpstreamRate(passed, total)]

\* The same record without its rate fields.
WithoutRates(m) ==
  [total_tests |-> m.total_tests, passed |-> m.passed, failed |-> m.failed,
   blocked |-> m.blocked, unexecuted |-> m.unexecuted]

\* The counts enumerated: every split of a total up to MaxTotal into passed,
\* failed and unexecuted, and the two documented samples.
MetricsRecords ==
  { UpstreamMetrics(t, ps, t - u - ps, 0, u) :
      << t, u, ps >> \in { x \in (0..MaxTotal) \X (0..MaxTotal) \X (0..MaxTotal) :
                            x[2] + x[3] <= x[1] } }
  \cup { UpstreamMetrics(450, 320, 45, 15, 70), UpstreamMetrics(50, 45, 3, 1, 1) }

MetricsReports ==
  { [call |-> << 3, GenerateTestReport >>, project_id |-> "p1", version_id |-> "v1",
     overall_metrics |-> m] : m \in MetricsRecords \cup {WithoutRates(r) : r \in MetricsRecords} }
  \cup { [call |-> << 3, GenerateTestReport >>, error |-> "Upstream error"] }

MetricsProgress ==
  { [call |-> << 3, GetExecutionProgress >>, project_id |-> "p1", version_id |-> "v1",
     progress |-> << c >>] : c \in MetricsRecords \cup {WithoutRates(r) : r \in MetricsRecords} }

\* The dashboard after a report for (p1, v1) has been loaded, for every report
\* and every cycle record above.
MetricsInit ==
  /\ mounted = TRUE
  /\ projects = UpstreamProjects
  /\ selectedProject = "p1"
  /\ selectedVersion = "v1"
  /\ versions = VersionList([releases |-> UpstreamReleases("p1")])
  /\ \E r \in MetricsReports, pr \in MetricsProgress :
       /\ dashboardData =
            [report |-> r, progress |-> pr,
             regressionTests |-> UpstreamDoc("ok", << 3, GetRegressionTestCount >>, "p1", "v1"),
             negativeTests |-> UpstreamDoc("ok", << 3, GetNegativeTestCount >>, "p1", "v1")]
       /\ loads = << FinishedLoad("loadProjects", FALSE, FALSE),
                     FinishedLoad("loadVersions", FALSE, FALSE),
                     FinishedLoad("loadDashboard", HasError(r), FALSE) >>
  /\ loading = FALSE
  /\ error = ""
  /\ requests = [t \in AllTools |->
                   IF t \in {GetProjects, GetReleaseStatus} \cup DashboardTools THEN 1 ELSE 0]
  /\ events = [l \in Loaders |-> 1]
  /\ failedLoads = {}
  /\ view = NoView
  /\ client = NoCall

MetricsSpec == MetricsInit /\ [][RenderDashboard]_vars

\* ------------------------------------------------ the tool client alone
\* The documents a tool can put in content[0].text: every tool's result and
\* error-field result for every project and version argument.
ClientDocs ==
  { UpstreamDoc(k, << 1, t >>, p, v) :
      << k, t, p, v >> \in {"ok", "ok_empty", "ok_absent", "err_field"} \X AllTools
                            \X {"p1", "p2"} \X UpstreamVersionIds }

\* The response bodies response.json() can yield around a text: no result
\* (only an error field), a result without content, an empty content array, a
\* content element without text, and the text as the first content element,
\* alone, ahead of a second element, or beside an error field.
ClientBodies(text) ==
  { [error |-> [message |-> "Unknown tool"]],
    [result |-> [isError |-> TRUE]],
    [result |-> [content |-> << >>]],
    [result |-> [content |-> << [type |-> "text"] >>]],
    [result |-> [content |-> << [text |-> text] >>]],
    [result |-> [content |-> << [text |-> text], [text |-> [wellFormed |-> FALSE]] >>]],
    [error |-> [message |-> "Unknown tool"], result |-> [content |-> << [text |-> text] >>]] }

ClientTexts ==
  { [wellFormed |-> FALSE] } \cup { [wellFormed |-> TRUE, doc |-> d] : d \in ClientDocs }

\* The outcomes of fetch + response.json() handed to callTool, among them the
\* ones Response builds for the loaders.
ClientResponses ==
  { [fetch |-> "rejected"] }
  \cup { [fetch |-> "ok", body |-> b] : b \in UNION { ClientBodies(x) : x \in ClientTexts } }
  \cup { Response(k, d) : k \in ThrowKinds \cup {"ok"}, d \in ClientDocs }

\* A component that has not mounted, and one call of callTool to come.
ClientInit ==
  /\ mounted = FALSE
  /\ projects = << >>
  /\ selectedProject = ""
  /\ selectedVersion = ""
  /\ versions = << >>
  /\ dashboardData = Null
  /\ loading = FALSE
  /\ error = ""
  /\ loads = << >>
  /\ requests = [t \in AllTools |-> 0]
  /\ events = [l \in Loaders |-> 0]
  /\ failedLoads = {}
  /\ view = NoView
  /\ \E r \in ClientResponses : client = [called |-> FALSE, response |-> r]

\* `await callTool(toolName, args)` once the response is there.
CallTool ==
  /\ ~client.called
  /\ "response" \in DOMAIN client
  /\ client' = [called |-> TRUE, response |-> client.response,
                outcome |-> callTool(client.response)]
  /\ UNCHANGED << mounted, projects, selectedProject, selectedVersion, versions,
                  dashboardData, loading, error, loads, requests, events,
                  failedLoads, view >>

ClientSpec == ClientInit /\ [][CallTool]_vars

TypeOK ==
  /\ mounted \in BOOLEAN
  /\ loading \in BOOLEAN
  /\ selectedProject \in Options(UpstreamProjects)
  /\ selectedVersion \in ({""} \cup UpstreamVersionIds)
  /\ Len(loads) <= MaxLoads

\* ------------------------------------------------------------------ claims
Abs(n) == IF n < 0 THEN -n ELSE n

\* The four components of a report, in the order of the Promise.all array.
Components(d) == << d.report, d.progress, d.regressionTests, d.negativeTests >>

\* d was written by loadDashboard invocation i: component j is the document
\* the upstream returned for call j of invocation i.
WrittenBy(d, i) ==
  \A j \in 1..4 :
    /\ "call" \in DOMAIN Components(d)[j]
    /\ Components(d)[j].call = << i, DashboardCalls[j] >>

DashboardLoads == {i \in 1..Len(loads) : loads[i].kind = "loadDashboard"}

C2_EveryErrorSurfaced ==
  \A i \in 1..Len(loads) :
    (loads[i].settled /\ loads[i].hadError) => loads[i].surfaced

\* What does hold: loadProjects and loadVersions surface every error kind, and
\* loadDashboard surfaces the ones callTool throws.
C2_ThrownErrorsSurfaced ==
  \A i \in 1..Len(loads) :
    (loads[i].settled /\ loads[i].hadError
       /\ (loads[i].kind # "loadDashboard" \/ i \in failedLoads)) => loads[i].surfaced

\* The cycle records and the overall metrics behind the last render.
ViewCycles == view.data.progress.progress
ViewOverall == OverallMetrics(view.data)

IsZero(q) == ~IsNaN(q) /\ q.num = 0
ZeroText == [nan |-> FALSE, tenths |-> 0]

\* C3 - Zero totals never divide: for a cycle with total_tests = 0 the
\* percentage and the printed text of both progress bars and CycleCard's
\* executionRate and passRate are 0, and for overall metrics with
\* total_tests = 0 the Execution Rate and Pass Rate cards print 0.0, never NaN,
\* with or without the upstream rate fields.
C3_ZeroTotalsAreZero ==
  view.rendered =>
    /\ \A j \in 1..Len(view.cycles) :
         ViewCycles[j].total_tests = 0 =>
           /\ IsZero(view.cycles[j].execution.width)
           /\ IsZero(view.cycles[j].pass.width)
           /\ view.cycles[j].execution.text = ZeroText
           /\ view.cycles[j].pass.text = ZeroText
           /\ IsZero(view.cycles[j].executionRate)
           /\ IsZero(view.cycles[j].passRate)
    /\ ("total_tests" \in DOMAIN ViewOverall /\ ViewOverall.total_tests = 0) =>
         /\ view.cards.executionRate = ZeroText
         /\ view.cards.passRate = ZeroText

\* A render of a cycle and of overall metrics with total 0 and no rate fields.
C3_Witness ==
  /\ view.rendered
  /\ Len(view.cycles) = 1
  /\ ViewCycles[1].total_tests = 0
  /\ "execution_rate" \notin DOMAIN ViewCycles[1]
  /\ "total_tests" \in DOMAIN ViewOverall
  /\ ViewOverall.total_tests = 0
  /\ "execution_rate" \notin DOMAIN ViewOverall

\* t tenths is n / total * 100 to one decimal.
OneDecimalOf(t, n, total) == 2 * Abs(t * total - 1000 * n) <= total

\* C4 - Rate formulas: for a cycle with total_tests > 0 the execution
\* percentage is (total - unexecuted) / total * 100 and the pass percentage
\* passed / total * 100, printed to one decimal; {total 50, passed 45,
\* unexecuted 1} prints 98.0 and 90.0, {total 450, passed 320, unexecuted 70}
\* prints 84.4 and 71.1.
C4_RateFormulas ==
  view.rendered =>
    \A j \in 1..Len(view.cycles) :
      LET cy == ViewCycles[j]
          card == view.cycles[j]
      IN cy.total_tests > 0 =>
           /\ ~IsNaN(card.execution.width) /\ ~IsNaN(card.pass.width)
           /\ card.execution.width.num * cy.total_tests
                = (cy.total_tests - cy.unexecuted) * 100 * card.execution.width.den
           /\ card.pass.width.num * cy.total_tests
                = cy.passed * 100 * card.pass.width.den
           /\ ~card.execution.text.nan /\ ~card.pass.text.nan
           /\ OneDecimalOf(card.execution.text.tenths,
                           cy.total_tests - cy.unexecuted, cy.total_tests)
           /\ OneDecimalOf(card.pass.text.tenths, cy.passed, cy.total_tests)
           /\ (cy.total_tests = 50 /\ cy.passed = 45 /\ cy.unexecuted = 1) =>
                (card.execution.text.tenths = 980 /\ card.pass.text.tenths = 900)
           /\ (cy.total_tests = 450 /\ cy.passed = 320 /\ cy.unexecuted = 70) =>
                (card.execution.text.tenths = 844 /\ card.pass.text.tenths = 711)

\* A render of the cycle {total 450, passed 320, unexecuted 70}.
C4_Witness ==
  /\ view.rendered
  /\ Len(view.cycles) = 1
  /\ ViewCycles[1].total_tests = 450
  /\ ViewCycles[1].passed = 320
  /\ ViewCycles[1].unexecuted = 70
  /\ view.cycles[1].execution.text.tenths = 844

NewLoads == (Len(loads) + 1)..Len(loads')

\* C6 - A get_release_status result without releases (an empty or an absent
\* list, no error field) makes loadVersions set versions to the empty list and
\* leaves the error state as it was.
C6_NoReleasesNoError ==
  [][\A i \in 1..Len(loads) : \A k \in {"ok_empty", "ok_absent"} :
       VersionsResponse(i, k) => (versions' = << >> /\ error' = error)]_vars

\* A project without releases was loaded after an earlier failure: the list
\* is empty and the earlier message still stands.
C6_Witness ==
  /\ versions = << >>
  /\ error # ""
  /\ selectedProject # ""
  /\ \E i \in 1..Len(loads) :
       loads[i].kind = "loadVersions" /\ loads[i].settled /\ ~loads[i].hadError

ReportTools ==
  {"generate_test_report", "get_execution_progress", "get_regression_test_count",
   "get_negative_test_count"}
SummaryTools ==
  {"get_test_execution_summary", "get_execution_progress", "get_regression_test_count",
   "get_negative_test_count"}

\* A step that starts a loadDashboard issues one request for each tool of
\* `tools` and no other dashboard request, each with the project and version
\* selected at that moment.
IssuesExactly(tools) ==
  \A i \in NewLoads :
    loads'[i].kind = "loadDashboard" =>
      /\ DOMAIN loads'[i].resp = tools
      /\ \A t \in tools : loads'[i].resp[t] = "pending" /\ requests'[t] = requests[t] + 1
      /\ \A t \in (ReportTools \cup SummaryTools) \ tools : requests'[t] = requests[t]
      /\ loads'[i].project = selectedProject'
      /\ loads'[i].version = selectedVersion'

\* The Total Tests card shows total_tests of the result of the call of
\* `tool`, and the Regression Tests and Negative Tests cards the counts of the
\* results of their own calls of the same invocation.
ShownFrom(tool) ==
  dashboardData # Null =>
    /\ \E i \in DashboardLoads :
         /\ "call" \in DOMAIN dashboardData.report
         /\ dashboardData.report.call = << i, tool >>
         /\ "call" \in DOMAIN dashboardData.regressionTests
         /\ dashboardData.regressionTests.call = << i, "get_regression_test_count" >>
         /\ "call" \in DOMAIN dashboardData.negativeTests
         /\ dashboardData.negativeTests.call = << i, "get_negative_test_count" >>
    /\ "overall_metrics" \in DOMAIN dashboardData.report =>
         MetricCards(dashboardData).totalTests
           = UpstreamOverall(dashboardData.report.project_id,
                             dashboardData.report.version_id).total_tests
    /\ "total_regression_tests" \in DOMAIN dashboardData.regressionTests =>
         MetricCards(dashboardData).regressionTests
           = dashboardData.regressionTests.total_regression_tests
    /\ "negative_test_count" \in DOMAIN dashboardData.negativeTests =>
         MetricCards(dashboardData).negativeTests
           = dashboardData.negativeTests.negative_test_count

\* C7 as stated - loadDashboard issues exactly the four calls execution
\* summary (get_test_execution_summary), per-cycle progress, regression count
\* and negative count with the current selection, and the total shown comes
\* from the execution-summary call.
C7_FourSummaryCalls ==
  [][IssuesExactly(SummaryTools) /\ ShownFrom("get_test_execution_summary")']_vars

\* C7 as amended - loadDashboard issues exactly the four calls
\* generate_test_report, get_execution_progress, get_regression_test_count and
\* get_negative_test_count, each with the project and version selected at the
\* moment of the call; the total shown comes from the generate_test_report
\* result, the regression and negative counts from their own calls.
C7_FourReportCalls ==
  [][IssuesExactly(ReportTools) /\ ShownFrom("generate_test_report")']_vars

\* The report of (p1, v1) is held and its cards show the three counts.
C7_Witness ==
  /\ dashboardData # Null
  /\ MetricCards(dashboardData).totalTests = 450
  /\ MetricCards(dashboardData).regressionTests = 125
  /\ MetricCards(dashboardData).negativeTests = 35

\* C8 - Refetch on every selection change: a change of selectedProject to a
\* non-empty value issues a get_release_status request for the new project,
\* and a change of selectedProject or selectedVersion that leaves both
\* non-empty starts a loadDashboard whose four requests carry the new pair.
C8_RefetchOnSelectionChange ==
  [][/\ (selectedProject' # selectedProject /\ selectedProject' # "") =>
          /\ requests'[GetReleaseStatus] = requests[GetReleaseStatus] + 1
          /\ \E i \in NewLoads :
               /\ loads'[i].kind = "loadVersions"
               /\ loads'[i].project = selectedProject'
               /\ loads'[i].resp[GetReleaseStatus] = "pending"
     /\ ((selectedProject' # selectedProject \/ selectedVersion' # selectedVersion)
           /\ selectedProject' # "" /\ selectedVersion' # "") =>
          \E i \in NewLoads :
            /\ loads'[i].kind = "loadDashboard"
            /\ loads'[i].project = selectedProject'
            /\ loads'[i].version = selectedVersion'
            /\ \A t \in ReportTools :
                 /\ t \in DOMAIN loads'[i].resp
                 /\ loads'[i].resp[t] = "pending"
                 /\ requests'[t] = requests[t] + 1]_vars

\* A project change with a version selected has just started both the
\* version load and the dashboard load for the new project.
C8_Witness ==
  /\ events.loadVersions = 2
  /\ \E i \in 1..Len(loads) :
       /\ loads[i].kind = "loadVersions" /\ ~loads[i].settled
       /\ loads[i].project = selectedProject
  /\ \E i \in 1..Len(loads) :
       /\ loads[i].kind = "loadDashboard" /\ ~loads[i].settled
       /\ loads[i].project = selectedProject /\ loads[i].version = selectedVersion
       /\ \A t \in DOMAIN loads[i].resp : loads[i].resp[t] = "pending"

\* The events a user can cause.
UserAction ==
  \/ \E p \in Options(UpstreamProjects) : SelectProject(p)
  \/ \E v \in ({""} \cup UpstreamVersionIds) : SelectVersion(v)
  \/ ClickRefresh

InFlight == \E i \in 1..Len(loads) : ~loads[i].settled

\* Some enabled user event issues a request of the loader `kind`.
CanRetrigger(kind) ==
  ENABLED (UserAction /\ \E t \in ToolsOf(kind) : requests'[t] = requests[t] + 1)

\* C9 - Manual re-trigger: once a load has failed and set the error state and
\* no load is in flight, an enabled user action re-issues the failed
\* operation (checked while the bound on loads leaves room for two more).
C9_ManualRetrigger ==
  \A i \in 1..Len(loads) :
    (loads[i].settled /\ loads[i].hadError /\ loads[i].surfaced
       /\ ~InFlight /\ Len(loads) + 2 <= MaxLoads)
      => CanRetrigger(loads[i].kind)

\* C10 - No automatic retry: every request is issued once per triggering
\* event (mount, selection change, Refresh click), so for each tool the
\* number of requests equals, and never exceeds, the number of events that
\* trigger its loader; a tool no loader calls has no request.
C10_NoAutomaticRetry ==
  \A t \in AllTools :
    /\ requests[t] <= events[LoaderOf(t)]
    /\ t \in {GetProjects, GetReleaseStatus} \cup ReportTools
         => requests[t] = events[LoaderOf(t)]

\* A dashboard load failed and the user then started another.
C10_Witness ==
  /\ failedLoads # {}
  /\ events.loadDashboard = 2
  /\ requests[GenerateTestReport] = 2

\* The loadProjects invocation of the mount effect has finished.
ProjectsLoaded ==
  \E i \in 1..Len(loads) : loads[i].kind = "loadProjects" /\ loads[i].settled

\* C11 - The project list is fetched once per session: get_projects is
\* requested exactly once, by the mount step, and no later step (project or
\* version selection, Refresh click, response of any kind to any call)
\* requests it again or changes projects once that call has completed.
C11_ProjectsFetchedOnce ==
  [][/\ requests'[GetProjects] = 1
     /\ requests'[GetProjects] # requests[GetProjects] => (~mounted /\ mounted')
     /\ Cardinality({i \in 1..Len(loads') : loads'[i].kind = "loadProjects"}) = 1
     /\ ProjectsLoaded => projects' = projects]_vars

\* The list was loaded, and selections, a failed dashboard load and a later
\* dashboard load followed with still one get_projects request.
C11_Witness ==
  /\ ProjectsLoaded
  /\ projects = UpstreamProjects
  /\ failedLoads # {}
  /\ events.loadDashboard = 2
  /\ requests[GetProjects] = 1

\* The response has result.content.
HasContent(r) ==
  /\ r.fetch = "ok"
  /\ "result" \in DOMAIN r.body
  /\ "content" \in DOMAIN r.body.result

\* content[0].text is there and is JSON.
HasParsableText(r) ==
  /\ HasContent(r)
  /\ Len(r.body.result.content) > 0
  /\ "text" \in DOMAIN r.body.result.content[1]
  /\ r.body.result.content[1].text.wellFormed

\* C12 - Tool client outcome: callTool returns a value only when the response
\* has result.content, and the value is the document parsed from
\* result.content[0].text; on a transport failure, on a response without
\* result or result.content (one with only an error field included) and on
\* text that does not parse it returns no value and the caller gets a throw
\* with a message.
C12_ToolClientOutcome ==
  client.called =>
    LET r == client.response
        o == client.outcome
    IN /\ ~o.threw =>
            /\ HasContent(r)
            /\ HasParsableText(r)
            /\ o.value = r.body.result.content[1].text.doc
       /\ ~HasParsableText(r) =>
            /\ o.threw
            /\ "value" \notin DOMAIN o
            /\ o.message # ""
       /\ o.threw <=> ~HasParsableText(r)

\* callTool threw on a response whose content text does not parse.
C12_Witness ==
  /\ client.called
  /\ HasContent(client.response)
  /\ Len(client.response.body.result.content) > 0
  /\ "text" \in DOMAIN client.response.body.result.content[1]
  /\ ~client.response.body.result.content[1].text.wellFormed
  /\ client.outcome.threw

\* C13 - A selected version belongs to the selected project: every
\* loadDashboard invocation sends a version_id that is the id of a version in
\* the release list of the project whose project_id it sends.
C13_VersionOfProject ==
  [][\A i \in NewLoads :
       loads'[i].kind = "loadDashboard" =>
         loads'[i].version \in ReleaseIds(loads'[i].project)]_vars

\* Some loadDashboard invocation has started and not finished.
DashboardInFlight == \E i \in DashboardLoads : ~loads[i].settled

\* C14 - No stale report under overlapping loads: when no loadDashboard
\* invocation is in flight, the error state is empty and a project and a
\* version are selected, every result held in a non-null dashboardData was
\* fetched for the selected (project, version) pair.
C14_NoStaleReport ==
  (dashboardData # Null /\ ~DashboardInFlight /\ error = ""
     /\ selectedProject # "" /\ selectedVersion # "") =>
    \A j \in 1..4 :
      LET c == Components(dashboardData)[j]
      IN "project_id" \in DOMAIN c =>
           (c.project_id = selectedProject /\ c.version_id = selectedVersion)

\* The loadVersions invocations for project p, and the last of them.
VersionLoads(p) ==
  {i \in 1..Len(loads) : loads[i].kind = "loadVersions" /\ loads[i].project = p}
LastVersionLoad(p) ==
  CHOOSE i \in VersionLoads(p) : \A j \in VersionLoads(p) : j <= i

\* C15 - No stale version list: when a project is selected, no
\* get_release_status call is in flight and the last call for that project
\* succeeded, versions is the release list that call returned.
C15_NoStaleVersions ==
  (/\ selectedProject # ""
   /\ \A i \in 1..Len(loads) : loads[i].kind = "loadVersions" => loads[i].settled
   /\ VersionLoads(selectedProject) # {}
   /\ ~loads[LastVersionLoad(selectedProject)].hadError) =>
    versions = loads[LastVersionLoad(selectedProject)].returned

\* C16 - The loading flag tracks in-flight loads: loading is true while at
\* least one loadDashboard invocation has started and not finished, and false
\* once every started invocation has finished; so Refresh is disabled while
\* any dashboard load is in flight.
C16_LoadingTracksLoads ==
  /\ DashboardInFlight => (loading /\ ~RefreshEnabled)
  /\ (DashboardLoads # {} /\ ~DashboardInFlight) => ~loading

====
